---- MODULE Spec2Model ----
(***************************************************************************)
(* The arrow methods of the JSON Selection evaluator                       *)
(* (apollo-federation/src/sources/connect/json_selection/methods.rs).      *)
(*                                                                         *)
(* A method is a function                                                  *)
(*   (name, args, data, vars, input_path, tail, errors) -> Option<JSON>    *)
(* Every operator below that models one returns a record                   *)
(*   [some, val, c]   with  c = [errors, log, depth, panic]                *)
(* where c.errors is the IndexSet<ApplyToError> (a duplicate-free          *)
(* sequence), c.panic says that the Rust code aborted (a panic unwinds the *)
(* whole evaluation), and c.log is a ghost trace of the argument           *)
(* evaluations and tail applications made directly by the outermost call.  *)
(***************************************************************************)
EXTENDS Integers, Sequences, FiniteSets, TLC

VARIABLES pc, method_name, method_args, data, vars, input_path, tail,
          overflow_checks, errors0, result,
          registry, evals

allvars == <<pc, method_name, method_args, data, vars, input_path, tail,
             overflow_checks, errors0, result, registry, evals>>

(***************************************************************************)
(* Bounds of the model.                                                    *)
(***************************************************************************)
\* Width of the signed integer that stands for Rust's i64 (TLC's own
\* integers are 32 bits wide, so the 64-bit range is scaled down).
IntBits == 6
\* Longest argument list of a method call.
MaxArgs == 2
\* Number of top-level evaluations that run concurrently.
NEvals == 2

IntMax == 2^(IntBits - 1) - 1
IntMin == -(2^(IntBits - 1))
UIntMax == 2^IntBits - 1
\* Largest finite magnitude of the model's floating-point numbers.
FloatMax == 2^(IntBits + 2)

(***************************************************************************)
(* JSON values (serde_json_bytes::Value).  Numbers are PosInt(u64) /       *)
(* NegInt(i64) (kind "int", IntMin..UIntMax) or Float (kind "float", an    *)
(* exact fraction <<num, den>>).  A string is its sequence of characters;  *)
(* Utf8Len gives the number of bytes of a character.                       *)
(***************************************************************************)
JNull == [k |-> "null", v |-> 0]
JBool(b) == [k |-> "bool", v |-> b]
JInt(n) == [k |-> "int", v |-> n]
JStr(chars) == [k |-> "str", v |-> chars]
JArr(items) == [k |-> "arr", v |-> items]
JObj(fields) == [k |-> "obj", v |-> fields]

Abs(n) == IF n < 0 THEN -n ELSE n

RECURSIVE Gcd(_, _)
Gcd(a, b) == IF b = 0 THEN a ELSE Gcd(b, a % b)

\* A fraction in lowest terms with a positive denominator.
Frac(n, d) ==
    LET g == Gcd(Abs(n), Abs(d))
        s == IF d < 0 THEN -1 ELSE 1
    IN  <<s * (n \div g), s * (d \div g)>>

JFloat(n, d) == [k |-> "float", v |-> Frac(n, d)]

Utf8Len(ch) == IF ch = "U+00E9" THEN 2 ELSE 1

(***************************************************************************)
(* serde_json Number: the accessors the methods use.                       *)
(***************************************************************************)
is_number(j) == j.k = "int" \/ j.k = "float"
is_f64(n) == n.k = "float"
\* Number::as_i64: None for a float and for a u64 above i64::MAX.
has_i64(n) == n.k = "int" /\ n.v <= IntMax
\* Number::as_f64, as an exact fraction.
as_f64(n) == IF n.k = "float" THEN n.v ELSE <<n.v, 1>>

\* Rust's integer division and remainder truncate towards zero.
TruncDiv(a, b) ==
    LET q == Abs(a) \div Abs(b)
    IN  IF (a < 0) = (b < 0) THEN q ELSE -q
TruncRem(a, b) == a - b * TruncDiv(a, b)

\* Two's complement wrap-around of an out-of-range result.
Wrap(n) == ((n - IntMin) % (2^IntBits)) + IntMin

OpOk(n) == [some |-> TRUE, val |-> n, panic |-> FALSE]
OpNone == [some |-> FALSE, val |-> JNull, panic |-> FALSE]
OpPanic == [some |-> FALSE, val |-> JNull, panic |-> TRUE]

\* a $op b on two i64: + - * overflow panics when the build checks overflow
\* and wraps otherwise; / and % panic on a zero divisor and on MIN / -1.
IntOp(op, a, b, oc) ==
    IF op \in {"/", "%"}
    THEN IF b = 0 \/ (a = IntMin /\ b = -1)
         THEN OpPanic
         ELSE OpOk(JInt(IF op = "/" THEN TruncDiv(a, b) ELSE TruncRem(a, b)))
    ELSE LET exact == CASE op = "+" -> a + b
                        [] op = "-" -> a - b
                        [] OTHER -> a * b
         IN  IF exact >= IntMin /\ exact <= IntMax
             THEN OpOk(JInt(exact))
             ELSE IF oc THEN OpPanic ELSE OpOk(JInt(Wrap(exact)))

\* a $op b on two f64: [finite, v]; a zero divisor gives an infinity or a
\* NaN, a magnitude above FloatMax an infinity.
FloatOp(op, x, y) ==
    LET raw == CASE op = "+" -> <<x[1] * y[2] + y[1] * x[2], x[2] * y[2]>>
                 [] op = "-" -> <<x[1] * y[2] - y[1] * x[2], x[2] * y[2]>>
                 [] op = "*" -> <<x[1] * y[1], x[2] * y[2]>>
                 [] op = "/" -> <<x[1] * y[2], x[2] * y[1]>>
                 [] OTHER ->
                      IF y[1] = 0 THEN <<0, 0>>
                      ELSE <<x[1] * y[2]
                               - TruncDiv(x[1] * y[2], x[2] * y[1]) * y[1] * x[2],
                             x[2] * y[2]>>
    IN  IF raw[2] = 0 \/ Abs(raw[1]) > FloatMax * Abs(raw[2])
        THEN [finite |-> FALSE, v |-> <<0, 1>>]
        ELSE [finite |-> TRUE, v |-> Frac(raw[1], raw[2])]

\* Number::from_f64: None unless the float is finite.
from_f64(f) ==
    IF f.finite THEN OpOk([k |-> "float", v |-> f.v]) ELSE OpNone

\* macro infix_math_op
\* An operation that takes its operands in the other order.
infix_math_op_swapped(op, a, b, oc) ==
    IF is_f64(a) \/ is_f64(b)
    THEN from_f64(FloatOp(op, as_f64(b), as_f64(a)))
    ELSE IF has_i64(a) /\ has_i64(b)
         THEN IntOp(op, b.v, a.v, oc)
         ELSE OpNone

infix_math_op(op, a, b, oc) ==
    IF is_f64(a) \/ is_f64(b)
    THEN from_f64(FloatOp(op, as_f64(a), as_f64(b)))
    ELSE IF has_i64(a) /\ has_i64(b)
         THEN IntOp(op, a.v, b.v, oc)
         ELSE OpNone

add_op(a, b, oc) == infix_math_op("+", a, b, oc)
sub_op(a, b, oc) == infix_math_op("-", a, b, oc)
mul_op(a, b, oc) == infix_math_op("*", a, b, oc)
div_op(a, b, oc) == infix_math_op("/", a, b, oc)
rem_op(a, b, oc) == infix_math_op("%", a, b, oc)

\* helpers::json_type_name
json_type_name(j) ==
    CASE j.k = "null" -> "null"
      [] j.k = "bool" -> "boolean"
      [] j.k \in {"int", "float"} -> "number"
      [] j.k = "str" -> "string"
      [] j.k = "arr" -> "array"
      [] OTHER -> "object"

\* A truthiness under which empty arrays and objects are false.
is_truthy_nonempty(j) ==
    CASE j.k = "bool" -> j.v
      [] j.k = "int" -> j.v # 0
      [] j.k = "float" -> j.v[1] # 0
      [] j.k = "null" -> FALSE
      [] OTHER -> j.v # <<>>

is_truthy(j) ==
    CASE j.k = "bool" -> j.v
      [] j.k = "int" -> j.v # 0
      [] j.k = "float" -> j.v[1] # 0
      [] j.k = "null" -> FALSE
      [] j.k = "str" -> j.v # <<>>
      [] OTHER -> TRUE

\* Value::as_i64 of an optional value: [some, n].
value_as_i64(r) ==
    IF r.some /\ has_i64(r.val) THEN [some |-> TRUE, n |-> r.val.v]
    ELSE [some |-> FALSE, n |-> 0]

Max(a, b) == IF a >= b THEN a ELSE b
Min(a, b) == IF a <= b THEN a ELSE b

(***************************************************************************)
(* Strings as bytes: str::len and the byte-range index s[start..end].      *)
(***************************************************************************)
RECURSIVE ByteLen(_)
ByteLen(chars) ==
    IF chars = <<>> THEN 0 ELSE Utf8Len(Head(chars)) + ByteLen(Tail(chars))

\* Byte offset at which character i starts (i = Len + 1: the end).
ByteOffset(chars, i) == ByteLen(SubSeq(chars, 1, i - 1))

is_char_boundary(chars, b) ==
    \E i \in 1..(Len(chars) + 1) : ByteOffset(chars, i) = b

\* The characters of s[start..end], both on character boundaries.
ByteRange(chars, start, end) ==
    LET first == CHOOSE i \in 1..(Len(chars) + 1) : ByteOffset(chars, i) = start
        past == CHOOSE i \in 1..(Len(chars) + 1) : ByteOffset(chars, i) = end
    IN  SubSeq(chars, first, past - 1)

(***************************************************************************)
(* The evaluation context threaded through a call: the error set, the      *)
(* ghost log and the panic flag.                                           *)
(***************************************************************************)
ApplyToError(name, text, n, path) ==
    [message |-> <<name, text, n>>, path |-> path]

InSeq(x, s) == \E i \in DOMAIN s : s[i] = x

\* IndexSet::insert: appends unless an equal error is present.
Insert(c, err) ==
    IF InSeq(err, c.errors) THEN c ELSE [c EXCEPT !.errors = Append(@, err)]

Ret(v, c) == [some |-> TRUE, val |-> v, c |-> c]
NoVal(c) == [some |-> FALSE, val |-> JNull, c |-> c]
Fail(name, text, n, ip, c) == NoVal(Insert(c, ApplyToError(name, text, n, ip)))
Abort(c) == NoVal([c EXCEPT !.panic = TRUE])

\* Ghost: the outermost call records what it evaluates.
Note(c, ev) == IF c.depth = 0 THEN [c EXCEPT !.log = Append(@, ev)] ELSE c
Deeper(c) == [c EXCEPT !.depth = @ + 1]
Shallower(r) == [r EXCEPT !.c.depth = @ - 1]


(***************************************************************************)
(* Expressions.  MethodArgs is Option<Vec<JSLiteral>>: [some, args].       *)
(* A JSLiteral is a constant ("lit"), an array literal ("arr") or a path   *)
(* ("path", rooted at @ or $).  A PathList is the sequence of the method   *)
(* calls still to apply, <<>> being PathList::Empty.                       *)
(***************************************************************************)
NoParens == [some |-> FALSE, args |-> <<>>]
Parens(args) == [some |-> TRUE, args |-> args]

Lit(v) == [t |-> "lit", json |-> v]
ArrLit(items) == [t |-> "arr", items |-> items]
PathLit(root, p) == [t |-> "path", root |-> root, p |-> p]
Call(name, args) == [name |-> name, args |-> args]

RECURSIVE ApplyLit(_, _, _, _, _)
RECURSIVE ApplyPath(_, _, _, _, _)

\* arg.apply_to_path(data, vars, input_path, errors), as called by a method.
EvalArg(arg, on, env, ip, c) ==
    LET c1 == Note(c, [ev |-> "arg", expr |-> arg, on |-> on, path |-> ip,
                       vars |-> env.vars])
    IN  Shallower(ApplyLit(arg, on, env, ip, Deeper(c1)))

\* tail.apply_to_path(value, vars, input_path, errors), as called by a method.
EvalTail(rest, on, env, ip, c) ==
    LET c1 == Note(c, [ev |-> "tail", expr |-> rest, on |-> on, path |-> ip,
                       vars |-> env.vars])
    IN  Shallower(ApplyPath(rest, on, env, ip, Deeper(c1)))

\* option.and_then(|value| tail.apply_to_path(&value, ...))
AndThenTail(r, rest, env, ip) ==
    IF r.c.panic \/ ~r.some THEN NoVal(r.c)
    ELSE EvalTail(rest, r.val, env, ip, r.c)

echo_method(name, args, on, env, ip, rest, c) ==
    IF args.some /\ Len(args.args) > 0
    THEN AndThenTail(EvalArg(args.args[1], on, env, ip, c), rest, env, ip)
    ELSE Fail(name, "requires one argument", JNull, ip, c)

TypeChars(name) ==
    CASE name = "null" -> <<"n", "u", "l", "l">>
      [] name = "boolean" -> <<"b", "o", "o", "l", "e", "a", "n">>
      [] name = "number" -> <<"n", "u", "m", "b", "e", "r">>
      [] name = "string" -> <<"s", "t", "r", "i", "n", "g">>
      [] name = "array" -> <<"a", "r", "r", "a", "y">>
      [] OTHER -> <<"o", "b", "j", "e", "c", "t">>

\* A typeof for which null and arrays are objects.
typeof_method_object(name, args, on, env, ip, rest, c) ==
    IF args.some
    THEN Fail(name, "does not take any arguments", JNull, ip, c)
    ELSE EvalTail(rest,
                  JStr(TypeChars(IF on.k \in {"null", "arr"} THEN "object"
                                 ELSE json_type_name(on))),
                  env, ip, c)

typeof_method(name, args, on, env, ip, rest, c) ==
    IF args.some
    THEN Fail(name, "does not take any arguments", JNull, ip, c)
    ELSE EvalTail(rest, JStr(TypeChars(json_type_name(on))), env, ip, c)

\* MapElement evaluating the element at the path its caller was given.
MapElementAtCaller(first_arg, element, env, ipi, rest, c) ==
    AndThenTail(EvalArg(first_arg, element, env, SubSeq(ipi, 1, Len(ipi) - 1), c),
                rest, env, SubSeq(ipi, 1, Len(ipi) - 1))

\* One element of map_method's loop: the argument applied to the element,
\* then the tail applied to that, both at the element's path.
MapElement(first_arg, element, env, ipi, rest, c) ==
    AndThenTail(EvalArg(first_arg, element, env, ipi, c), rest, env, ipi)

\* The loop of map_method over the elements i..len of the array; MapPush
\* pushes the value of element i, or null when it has none.
RECURSIVE MapLoop(_, _, _, _, _, _, _, _)
RECURSIVE MapPush(_, _, _, _, _, _, _, _)
MapPush(first_arg, array, i, output, env, ip, rest, r) ==
    IF r.c.panic THEN NoVal(r.c)
    ELSE MapLoop(first_arg, array, i + 1,
                 Append(output, IF r.some THEN r.val ELSE JNull),
                 env, ip, rest, r.c)

MapLoop(first_arg, array, i, output, env, ip, rest, c) ==
    IF i > Len(array) THEN Ret(JArr(output), c)
    ELSE MapPush(first_arg, array, i, output, env, ip, rest,
                 MapElement(first_arg, array[i], env, Append(ip, JInt(i - 1)),
                            rest, c))

map_method(name, args, on, env, ip, rest, c) ==
    IF args.some /\ Len(args.args) > 0
    THEN IF on.k = "arr"
         THEN MapLoop(args.args[1], on.v, 1, <<>>, env, ip, rest, c)
         ELSE EvalArg(args.args[1], on, env, ip, c)
    ELSE Fail(name, "requires one argument", JNull, ip, c)

\* eq_method once its argument is evaluated.
EqResult(value, on, env, ip, rest) ==
    IF value.c.panic THEN NoVal(value.c)
    ELSE EvalTail(rest, JBool(value.some /\ on = value.val), env, ip, value.c)

eq_method(name, args, on, env, ip, rest, c) ==
    IF args.some /\ Len(args.args) = 1
    THEN EqResult(EvalArg(args.args[1], on, env, ip, c), on, env, ip, rest)
    ELSE Fail(name, "requires exactly one argument", JNull, ip, c)

\* The loop of match_method over the arguments i..len; MatchPair decides
\* a two-element pair once its candidate is evaluated.
RECURSIVE MatchLoop(_, _, _, _, _, _, _, _)
RECURSIVE MatchPair(_, _, _, _, _, _, _, _)
\* A match that takes any candidate with a value for a match.
MatchPairAnyCandidate(name, args, i, on, env, ip, rest, candidate) ==
    IF candidate.c.panic THEN NoVal(candidate.c)
    ELSE IF candidate.some
    THEN AndThenTail(EvalArg(args[i].items[2], on, env, ip, candidate.c),
                     rest, env, ip)
    ELSE MatchLoop(name, args, i + 1, on, env, ip, rest, candidate.c)

\* A match that forgets the errors when it abandons a candidate.
MatchPairForgetful(name, args, i, on, env, ip, rest, candidate) ==
    IF candidate.c.panic THEN NoVal(candidate.c)
    ELSE IF candidate.some /\ candidate.val = on
    THEN AndThenTail(EvalArg(args[i].items[2], on, env, ip, candidate.c),
                     rest, env, ip)
    ELSE MatchLoop(name, args, i + 1, on, env, ip, rest,
                   [candidate.c EXCEPT !.errors = <<>>])

MatchPair(name, args, i, on, env, ip, rest, candidate) ==
    IF candidate.c.panic THEN NoVal(candidate.c)
    ELSE IF candidate.some /\ candidate.val = on
    THEN AndThenTail(EvalArg(args[i].items[2], on, env, ip, candidate.c),
                     rest, env, ip)
    ELSE MatchLoop(name, args, i + 1, on, env, ip, rest, candidate.c)

MatchLoop(name, args, i, on, env, ip, rest, c) ==
    IF i > Len(args)
    THEN Fail(name, "did not match any [candidate, value] pair", JNull, ip, c)
    ELSE IF args[i].t = "arr" /\ Len(args[i].items) \in {1, 2}
    THEN IF Len(args[i].items) = 1
         THEN AndThenTail(EvalArg(args[i].items[1], on, env, ip, c), rest, env, ip)
         ELSE MatchPair(name, args, i, on, env, ip, rest,
                        EvalArg(args[i].items[1], on, env, ip, c))
    ELSE MatchLoop(name, args, i + 1, on, env, ip, rest, c)

match_method(name, args, on, env, ip, rest, c) ==
    MatchLoop(name, IF args.some THEN args.args ELSE <<>>, 1, on, env, ip, rest, c)

\* The loop of match_if_method over the arguments i..len; MatchIfPair
\* decides a pair once its condition is evaluated.
RECURSIVE MatchIfLoop(_, _, _, _, _, _, _, _)
RECURSIVE MatchIfPair(_, _, _, _, _, _, _, _)
\* A matchIf that takes any truthy condition for true.
MatchIfPairTruthy(name, args, i, on, env, ip, rest, condition) ==
    IF condition.c.panic THEN NoVal(condition.c)
    ELSE IF condition.some /\ is_truthy(condition.val)
    THEN AndThenTail(EvalArg(args[i].items[2], on, env, ip, condition.c),
                     rest, env, ip)
    ELSE MatchIfLoop(name, args, i + 1, on, env, ip, rest, condition.c)

MatchIfPair(name, args, i, on, env, ip, rest, condition) ==
    IF condition.c.panic THEN NoVal(condition.c)
    ELSE IF condition.some /\ condition.val = JBool(TRUE)
    THEN AndThenTail(EvalArg(args[i].items[2], on, env, ip, condition.c),
                     rest, env, ip)
    ELSE MatchIfLoop(name, args, i + 1, on, env, ip, rest, condition.c)

MatchIfLoop(name, args, i, on, env, ip, rest, c) ==
    IF i > Len(args)
    THEN Fail(name, "did not match any [condition, value] pair", JNull, ip, c)
    ELSE IF args[i].t = "arr" /\ Len(args[i].items) = 2
    THEN MatchIfPair(name, args, i, on, env, ip, rest,
                     EvalArg(args[i].items[1], on, env, ip, c))
    ELSE MatchIfLoop(name, args, i + 1, on, env, ip, rest, c)

match_if_method(name, args, on, env, ip, rest, c) ==
    MatchIfLoop(name, IF args.some THEN args.args ELSE <<>>, 1, on, env, ip, rest, c)

\* The fold of arithmetic_method over the arguments i..len; ArithStep
\* combines the running result with the evaluated argument i.
RECURSIVE ArithLoop(_, _, _, _, _, _, _, _, _)
RECURSIVE ArithStep(_, _, _, _, _, _, _, _, _)
RECURSIVE ArithNext(_, _, _, _, _, _, _, _, _, _)
ArithNext(name, args, op, new_result, i, on, env, ip, n, c) ==
    IF new_result.panic THEN Abort(c)
    ELSE IF new_result.some
    THEN ArithLoop(name, args, op, new_result.val, i + 1, on, env, ip, c)
    ELSE Fail(name, "failed on argument", n, ip, c)

\* A fold that passes over an argument that is not a number.
ArithStepSkipping(name, args, op, acc, i, on, env, ip, value_opt) ==
    IF value_opt.c.panic THEN NoVal(value_opt.c)
    ELSE IF value_opt.some /\ is_number(value_opt.val)
    THEN ArithNext(name, args, op, infix_math_op(op, acc, value_opt.val, env.oc),
                   i, on, env, ip, value_opt.val, value_opt.c)
    ELSE ArithLoop(name, args, op, acc, i + 1, on, env, ip, value_opt.c)

ArithStep(name, args, op, acc, i, on, env, ip, value_opt) ==
    IF value_opt.c.panic THEN NoVal(value_opt.c)
    ELSE IF value_opt.some /\ is_number(value_opt.val)
    THEN ArithNext(name, args, op, infix_math_op(op, acc, value_opt.val, env.oc),
                   i, on, env, ip, value_opt.val, value_opt.c)
    ELSE Fail(name, "requires numeric arguments", JNull, ip, value_opt.c)

ArithLoop(name, args, op, acc, i, on, env, ip, c) ==
    IF i > Len(args) THEN Ret(acc, c)
    ELSE ArithStep(name, args, op, acc, i, on, env, ip,
                   EvalArg(args[i], on, env, ip, c))

arithmetic_method(name, args, op, on, env, ip, c) ==
    IF args.some
    THEN IF is_number(on)
         THEN ArithLoop(name, args.args, op, on, 1, on, env, ip, c)
         ELSE Fail(name, "requires numeric arguments", JNull, ip, c)
    ELSE Fail(name, "requires at least one argument", JNull, ip, c)

\* macro infix_math_method
infix_math_method(name, args, op, on, env, ip, rest, c) ==
    AndThenTail(arithmetic_method(name, args, op, on, env, ip, c), rest, env, ip)

add_method(name, args, on, env, ip, rest, c) ==
    infix_math_method(name, args, "+", on, env, ip, rest, c)
sub_method(name, args, on, env, ip, rest, c) ==
    infix_math_method(name, args, "-", on, env, ip, rest, c)
mul_method(name, args, on, env, ip, rest, c) ==
    infix_math_method(name, args, "*", on, env, ip, rest, c)
div_method(name, args, on, env, ip, rest, c) ==
    infix_math_method(name, args, "/", on, env, ip, rest, c)
mod_method(name, args, on, env, ip, rest, c) ==
    infix_math_method(name, args, "%", on, env, ip, rest, c)

\* array.first() / array.last(): the index of the element, 0 for none.
FirstLast(name, args, on, env, ip, rest, c, index) ==
    IF args.some
    THEN Fail(name, "does not take any arguments", JNull, ip, c)
    ELSE IF on.k = "arr" /\ index = 0 THEN NoVal(c)
    ELSE EvalTail(rest, IF on.k = "arr" THEN on.v[index] ELSE on, env, ip, c)

first_method(name, args, on, env, ip, rest, c) ==
    FirstLast(name, args, on, env, ip, rest, c,
              IF on.k = "arr" /\ on.v # <<>> THEN 1 ELSE 0)

\* A last that takes the element before the last one when there is one.
last_method_but_one(name, args, on, env, ip, rest, c) ==
    FirstLast(name, args, on, env, ip, rest, c,
              IF on.k = "arr" THEN Max(Len(on.v) - 1, Min(Len(on.v), 1)) ELSE 0)

last_method(name, args, on, env, ip, rest, c) ==
    FirstLast(name, args, on, env, ip, rest, c,
              IF on.k = "arr" THEN Len(on.v) ELSE 0)

\* A bound of slice: the evaluated argument as an i64, or the default,
\* clamped to [0, length].
SliceBound(r, default, length) ==
    LET n == value_as_i64(r)
    IN  Min(Max(IF n.some THEN n.n ELSE default, 0), length)

\* args.get(i).and_then(|arg| arg.apply_to_path(...))
EvalOptArg(args, i, on, env, ip, c) ==
    IF Len(args) >= i THEN EvalArg(args[i], on, env, ip, c) ELSE NoVal(c)

\* The cut of slice_method between the clamped bounds.  end - start is
\* computed on usize: below zero it panics when the build checks overflow
\* and wraps to a huge positive number otherwise.
SliceCut(on, start, end, oc) ==
    IF end < start
    THEN IF oc \/ on.k = "str" THEN OpPanic
         ELSE OpOk(JArr(SubSeq(on.v, start + 1, Len(on.v))))
    ELSE IF end - start = 0
    THEN OpOk(IF on.k = "arr" THEN JArr(<<>>) ELSE JStr(<<>>))
    ELSE IF on.k = "arr" THEN OpOk(JArr(SubSeq(on.v, start + 1, end)))
    ELSE IF is_char_boundary(on.v, start) /\ is_char_boundary(on.v, end)
    THEN OpOk(JStr(ByteRange(on.v, start, end)))
    ELSE OpPanic

SliceTail(cut, env, ip, rest, c) ==
    IF cut.panic THEN Abort(c) ELSE EvalTail(rest, cut.val, env, ip, c)

SliceEnd(on, length, env, ip, rest, start, r2) ==
    IF r2.c.panic THEN NoVal(r2.c)
    ELSE SliceTail(SliceCut(on, start, SliceBound(r2, length, length), env.oc),
                   env, ip, rest, r2.c)

SliceStart(args, on, length, env, ip, rest, r1) ==
    IF r1.c.panic THEN NoVal(r1.c)
    ELSE SliceEnd(on, length, env, ip, rest, SliceBound(r1, 0, length),
                  EvalOptArg(args, 2, on, env, ip, r1.c))

slice_method(name, args, on, env, ip, rest, c) ==
    IF on.k # "arr" /\ on.k # "str"
    THEN Fail(name, "requires an array or string input", JNull, ip, c)
    ELSE IF ~args.some THEN Ret(on, c)
    ELSE SliceStart(args.args, on,
                    IF on.k = "arr" THEN Len(on.v) ELSE ByteLen(on.v),
                    env, ip, rest, EvalOptArg(args.args, 1, on, env, ip, c))

not_method(name, args, on, env, ip, rest, c) ==
    IF args.some
    THEN Fail(name, "does not take any arguments", JNull, ip, c)
    ELSE EvalTail(rest, JBool(~is_truthy(on)), env, ip, c)

\* The loop of or_method (stop = TRUE) and and_method (stop = FALSE) over
\* the arguments i..len; it breaks as soon as the result equals stop.
RECURSIVE LogicLoop(_, _, _, _, _, _, _, _, _)
RECURSIVE LogicStep(_, _, _, _, _, _, _, _)
LogicStep(stop, args, i, on, env, ip, rest, r) ==
    IF r.c.panic THEN NoVal(r.c)
    ELSE LogicLoop(stop, args, i + 1, r.some /\ is_truthy(r.val),
                   on, env, ip, rest, r.c)

\* A loop that never breaks off.
LogicLoopNoBreak(stop, args, i, acc, on, env, ip, rest, c) ==
    IF i > Len(args)
    THEN EvalTail(rest, JBool(acc), env, ip, c)
    ELSE LogicStep(stop, args, i, on, env, ip, rest,
                   EvalArg(args[i], on, env, ip, c))

LogicLoop(stop, args, i, acc, on, env, ip, rest, c) ==
    IF i > Len(args) \/ acc = stop
    THEN EvalTail(rest, JBool(acc), env, ip, c)
    ELSE LogicStep(stop, args, i, on, env, ip, rest,
                   EvalArg(args[i], on, env, ip, c))

or_method(name, args, on, env, ip, rest, c) ==
    IF args.some
    THEN LogicLoop(TRUE, args.args, 1, is_truthy(on), on, env, ip, rest, c)
    ELSE Fail(name, "requires arguments", JNull, ip, c)

and_method(name, args, on, env, ip, rest, c) ==
    IF args.some
    THEN LogicLoop(FALSE, args.args, 1, is_truthy(on), on, env, ip, rest, c)
    ELSE Fail(name, "requires arguments", JNull, ip, c)

(***************************************************************************)
(* The registry and the two evaluators the methods call back into.         *)
(***************************************************************************)
ARROW_METHODS ==
    {"echo", "typeof", "map", "eq", "match", "matchIf", "match_if",
     "add", "sub", "mul", "div", "mod", "first", "last", "slice",
     "not", "or", "and"}

\* ARROW_METHODS.get(name) called with the method's arguments.
\* A registry without the alias match_if.
DispatchNoAlias(name, args, on, env, ip, rest, c) ==
    CASE name = "echo" -> echo_method(name, args, on, env, ip, rest, c)
      [] name = "typeof" -> typeof_method(name, args, on, env, ip, rest, c)
      [] name = "map" -> map_method(name, args, on, env, ip, rest, c)
      [] name = "eq" -> eq_method(name, args, on, env, ip, rest, c)
      [] name = "match" -> match_method(name, args, on, env, ip, rest, c)
      [] name = "matchIf" -> match_if_method(name, args, on, env, ip, rest, c)
      [] name = "match_if" -> Fail(name, "not found", JNull, ip, c)
      [] name = "add" -> add_method(name, args, on, env, ip, rest, c)
      [] name = "sub" -> sub_method(name, args, on, env, ip, rest, c)
      [] name = "mul" -> mul_method(name, args, on, env, ip, rest, c)
      [] name = "div" -> div_method(name, args, on, env, ip, rest, c)
      [] name = "mod" -> mod_method(name, args, on, env, ip, rest, c)
      [] name = "first" -> first_method(name, args, on, env, ip, rest, c)
      [] name = "last" -> last_method(name, args, on, env, ip, rest, c)
      [] name = "slice" -> slice_method(name, args, on, env, ip, rest, c)
      [] name = "not" -> not_method(name, args, on, env, ip, rest, c)
      [] name = "or" -> or_method(name, args, on, env, ip, rest, c)
      [] OTHER -> and_method(name, args, on, env, ip, rest, c)

Dispatch(name, args, on, env, ip, rest, c) ==
    CASE name = "echo" -> echo_method(name, args, on, env, ip, rest, c)
      [] name = "typeof" -> typeof_method(name, args, on, env, ip, rest, c)
      [] name = "map" -> map_method(name, args, on, env, ip, rest, c)
      [] name = "eq" -> eq_method(name, args, on, env, ip, rest, c)
      [] name = "match" -> match_method(name, args, on, env, ip, rest, c)
      [] name \in {"matchIf", "match_if"} ->
           match_if_method(name, args, on, env, ip, rest, c)
      [] name = "add" -> add_method(name, args, on, env, ip, rest, c)
      [] name = "sub" -> sub_method(name, args, on, env, ip, rest, c)
      [] name = "mul" -> mul_method(name, args, on, env, ip, rest, c)
      [] name = "div" -> div_method(name, args, on, env, ip, rest, c)
      [] name = "mod" -> mod_method(name, args, on, env, ip, rest, c)
      [] name = "first" -> first_method(name, args, on, env, ip, rest, c)
      [] name = "last" -> last_method(name, args, on, env, ip, rest, c)
      [] name = "slice" -> slice_method(name, args, on, env, ip, rest, c)
      [] name = "not" -> not_method(name, args, on, env, ip, rest, c)
      [] name = "or" -> or_method(name, args, on, env, ip, rest, c)
      [] OTHER -> and_method(name, args, on, env, ip, rest, c)

\* PathList::apply_to_path: Empty yields the data; a method call looks the
\* name up and calls the method with the rest of the path as its tail.
ApplyPath(p, on, env, ip, c) ==
    IF p = <<>> THEN Ret(on, c)
    ELSE IF Head(p).name \in ARROW_METHODS
    THEN Dispatch(Head(p).name, Head(p).args, on, env, ip, Tail(p), c)
    ELSE Fail(Head(p).name, "not found", JNull, ip, c)

\* The items i..len of an array literal, evaluated in order.
RECURSIVE LitItems(_, _, _, _, _, _, _)
RECURSIVE LitPush(_, _, _, _, _, _, _)
LitPush(items, i, output, on, env, ip, r) ==
    IF r.c.panic \/ ~r.some THEN NoVal(r.c)
    ELSE LitItems(items, i + 1, Append(output, r.val), on, env, ip, r.c)

LitItems(items, i, output, on, env, ip, c) ==
    IF i > Len(items) THEN Ret(JArr(output), c)
    ELSE LitPush(items, i, output, on, env, ip, ApplyLit(items[i], on, env, ip, c))

\* JSLiteral::apply_to_path.
ApplyLit(lit, on, env, ip, c) ==
    CASE lit.t = "lit" -> Ret(lit.json, c)
      [] lit.t = "arr" -> LitItems(lit.items, 1, <<>>, on, env, ip, c)
      [] OTHER ->
           IF lit.root = "@" THEN ApplyPath(lit.p, on, env, ip, c)
           ELSE ApplyPath(lit.p, env.vars.value, env, env.vars.path, c)


(***************************************************************************)
(* The inputs of a call.                                                   *)
(***************************************************************************)
Chr(s) == JStr(<<s>>)
At == PathLit("@", <<>>)
Dollar == PathLit("$", <<>>)
AtFirst == PathLit("@", <<Call("first", NoParens)>>)
AtNope == PathLit("@", <<Call("nope", NoParens)>>)
AtBogus == PathLit("@", <<Call("bogus", NoParens)>>)
AtModAt == PathLit("@", <<Call("mod", Parens(<<At>>))>>)
AtIsNumber ==
    PathLit("@", <<Call("typeof", NoParens),
                   Call("eq", Parens(<<Lit(JStr(TypeChars("number")))>>))>>)

DataPool(name) ==
    CASE name \in {"add", "sub", "mul", "div", "mod"} ->
           <<JInt(1), JInt(7), JInt(IntMax), JInt(IntMin), JInt(UIntMax),
             JFloat(5, 2), JFloat(FloatMax, 1), Chr("x")>>
      [] name = "slice" ->
           <<JArr(<<>>), JArr(<<JInt(1), JInt(2), JInt(3)>>), JStr(<<>>),
             JStr(<<"h", "e", "y">>), JStr(<<"U+00E9", "a">>), JInt(1)>>
      [] name \in {"match", "matchIf", "match_if"} ->
           <<JInt(1), JInt(0), JBool(TRUE), JBool(FALSE), Chr("x"), JArr(<<>>),
             JObj(<<>>)>>
      [] name = "map" ->
           <<JArr(<<>>), JArr(<<JInt(1)>>), JArr(<<JInt(1), JInt(0), JArr(<<>>)>>),
             JArr(<<JArr(<<>>), JInt(IntMax)>>), JInt(1), JInt(0), Chr("x"), JNull>>
      [] OTHER ->
           <<JNull, JBool(TRUE), JBool(FALSE), JInt(0), JInt(1), JInt(-3),
             JFloat(0, 1), JFloat(5, 2), JStr(<<>>), Chr("x"), JArr(<<>>),
             JArr(<<JInt(1)>>), JArr(<<JInt(1), Chr("x"), JInt(0)>>),
             JObj(<<>>), JObj(<< <<"a", JInt(1)>> >>)>>

ArgPool(name) ==
    CASE name \in {"add", "sub", "mul", "div", "mod"} ->
           <<Lit(JInt(0)), Lit(JInt(-1)), Lit(JInt(2)),
             Lit(JFloat(1, 2)), Lit(Chr("x")), AtBogus>>
      [] name = "slice" ->
           <<Lit(JInt(-1)), Lit(JInt(0)), Lit(JInt(1)), Lit(JInt(2)),
             Lit(JInt(IntMax)), Lit(JFloat(3, 2)), AtBogus>>
      [] name = "match" ->
           <<ArrLit(<<Lit(JInt(1)), Lit(Chr("a"))>>),
             ArrLit(<<At, Lit(Chr("b"))>>),
             ArrLit(<<AtNope, Lit(Chr("c"))>>),
             ArrLit(<<At, AtFirst>>),
             ArrLit(<<Lit(Chr("d"))>>),
             ArrLit(<<At, Lit(Chr("e")), Lit(Chr("f"))>>),
             ArrLit(<<AtModAt, Lit(Chr("g"))>>),
             At>>
      [] name \in {"matchIf", "match_if"} ->
           <<ArrLit(<<Lit(JBool(TRUE)), Lit(Chr("a"))>>),
             ArrLit(<<At, Lit(Chr("b"))>>),
             ArrLit(<<AtIsNumber, At>>),
             ArrLit(<<AtFirst, Lit(Chr("c"))>>),
             ArrLit(<<AtBogus, AtBogus>>),
             ArrLit(<<Lit(JBool(TRUE))>>),
             ArrLit(<<AtModAt, Lit(Chr("d"))>>),
             Lit(JBool(TRUE))>>
      [] name = "map" ->
           <<At, AtFirst, AtBogus, AtModAt,
             PathLit("@", <<Call("add", Parens(<<Lit(JInt(1))>>))>>)>>
      [] name \in {"or", "and"} ->
           <<Lit(JBool(TRUE)), Lit(JBool(FALSE)), At, AtFirst, AtBogus, AtModAt>>
      [] name = "eq" ->
           <<Lit(JInt(1)), At, Dollar, AtFirst, AtBogus, AtModAt>>
      [] name = "echo" ->
           <<Lit(JInt(1)), At, Dollar, AtFirst, AtBogus>>
      [] OTHER -> <<Lit(JInt(1)), AtBogus>>

Tails ==
    <<<<>>, <<Call("typeof", NoParens)>>, <<Call("bogus", NoParens)>>>>

\* The tails a call is followed by: not is also followed by itself.
NotTails ==
    <<<<Call("not", NoParens)>>, <<Call("not", NoParens), Call("not", NoParens)>>>>
TailPool(name) == IF name = "not" THEN Tails \o NotTails ELSE Tails

Names == ARROW_METHODS \cup {"bogus", "matchif", "Echo", "length"}

Path0 == <<Chr("k")>>
Vars0 == [value |-> JObj(<< <<"k", JInt(1)>> >>), path |-> <<>>]
\* An error already in the accumulator when the call starts.
Earlier == ApplyToError("bogus", "not found", JNull, Path0)

\* The lazy static ARROW_METHODS: untouched, being built by the first
\* evaluation that dereferences it (by), or built.
Unpopulated == [state |-> "uninit", methods |-> {}, by |-> 0]
Populated == [state |-> "ready", methods |-> ARROW_METHODS, by |-> 0]

\* The builds to tell apart: with and without overflow checks where the
\* call can reach integer arithmetic that overflows (the arithmetic methods,
\* the usize subtraction of slice, map over @->add(1)); for the other
\* calls the two builds run the same code.
Builds(name) ==
    IF name \in {"add", "sub", "mul", "div", "mod", "slice", "map"}
    THEN BOOLEAN ELSE {TRUE}

NoResult ==
    [some |-> FALSE, val |-> JNull, errors |-> <<>>, log |-> <<>>,
     panic |-> FALSE]

Init ==
    /\ pc = "ready"
    /\ method_name \in Names
    /\ \E i \in DOMAIN DataPool(method_name) : data = DataPool(method_name)[i]
    /\ \E n \in 0..(MaxArgs + 1) :
         IF n = MaxArgs + 1 THEN method_args = NoParens
         ELSE \E f \in [1..n -> DOMAIN ArgPool(method_name)] :
                method_args = Parens([i \in 1..n |-> ArgPool(method_name)[f[i]]])
    /\ \E i \in DOMAIN TailPool(method_name) : tail = TailPool(method_name)[i]
    /\ overflow_checks \in Builds(method_name)
    /\ \E e \in {0, 1} : errors0 = IF e = 0 THEN <<>> ELSE <<Earlier>>
    /\ vars = Vars0
    /\ input_path = Path0
    /\ result = NoResult
    /\ registry = Populated
    /\ evals = <<>>

Env == [vars |-> vars, oc |-> overflow_checks]
Ctx0 == [errors |-> errors0, log |-> <<>>, depth |-> 0, panic |-> FALSE]

\* What the caller observes: nothing but the abort after a panic.
Outcome(r) ==
    [some |-> r.some /\ ~r.c.panic,
     val |-> IF r.some /\ ~r.c.panic THEN r.val ELSE JNull,
     errors |-> r.c.errors, log |-> r.c.log, panic |-> r.c.panic]

Done(r) ==
    /\ result' = Outcome(r)
    /\ pc' = "done"
    /\ UNCHANGED <<method_name, method_args, data, vars, input_path, tail,
                   overflow_checks, errors0, registry, evals>>

Echo ==
    /\ pc = "ready" /\ method_name = "echo"
    /\ Done(echo_method(method_name, method_args, data, Env, input_path, tail, Ctx0))
Typeof ==
    /\ pc = "ready" /\ method_name = "typeof"
    /\ Done(typeof_method(method_name, method_args, data, Env, input_path, tail, Ctx0))
Map ==
    /\ pc = "ready" /\ method_name = "map"
    /\ Done(map_method(method_name, method_args, data, Env, input_path, tail, Ctx0))
Eq ==
    /\ pc = "ready" /\ method_name = "eq"
    /\ Done(eq_method(method_name, method_args, data, Env, input_path, tail, Ctx0))
Match ==
    /\ pc = "ready" /\ method_name = "match"
    /\ Done(match_method(method_name, method_args, data, Env, input_path, tail, Ctx0))
MatchIf ==
    /\ pc = "ready" /\ method_name \in {"matchIf", "match_if"}
    /\ Done(match_if_method(method_name, method_args, data, Env, input_path, tail, Ctx0))
Add ==
    /\ pc = "ready" /\ method_name = "add"
    /\ Done(add_method(method_name, method_args, data, Env, input_path, tail, Ctx0))
Sub ==
    /\ pc = "ready" /\ method_name = "sub"
    /\ Done(sub_method(method_name, method_args, data, Env, input_path, tail, Ctx0))
Mul ==
    /\ pc = "ready" /\ method_name = "mul"
    /\ Done(mul_method(method_name, method_args, data, Env, input_path, tail, Ctx0))
Div ==
    /\ pc = "ready" /\ method_name = "div"
    /\ Done(div_method(method_name, method_args, data, Env, input_path, tail, Ctx0))
Mod ==
    /\ pc = "ready" /\ method_name = "mod"
    /\ Done(mod_method(method_name, method_args, data, Env, input_path, tail, Ctx0))
First ==
    /\ pc = "ready" /\ method_name = "first"
    /\ Done(first_method(method_name, method_args, data, Env, input_path, tail, Ctx0))
Last ==
    /\ pc = "ready" /\ method_name = "last"
    /\ Done(last_method(method_name, method_args, data, Env, input_path, tail, Ctx0))
Slice ==
    /\ pc = "ready" /\ method_name = "slice"
    /\ Done(slice_method(method_name, method_args, data, Env, input_path, tail, Ctx0))
Not ==
    /\ pc = "ready" /\ method_name = "not"
    /\ Done(not_method(method_name, method_args, data, Env, input_path, tail, Ctx0))
Or ==
    /\ pc = "ready" /\ method_name = "or"
    /\ Done(or_method(method_name, method_args, data, Env, input_path, tail, Ctx0))
And ==
    /\ pc = "ready" /\ method_name = "and"
    /\ Done(and_method(method_name, method_args, data, Env, input_path, tail, Ctx0))
\* A name the registry does not hold: the path evaluator reports the miss.
NotFound ==
    /\ pc = "ready" /\ method_name \notin ARROW_METHODS
    /\ Done(ApplyPath(<<Call(method_name, method_args)>> \o tail, data, Env,
                      input_path, Ctx0))

Next ==
    \/ Echo \/ Typeof \/ Map \/ Eq \/ Match \/ MatchIf
    \/ Add \/ Sub \/ Mul \/ Div \/ Mod
    \/ First \/ Last \/ Slice \/ Not \/ Or \/ And
    \/ NotFound

Spec == Init /\ [][Next]_allvars

(***************************************************************************)
(* Concurrent evaluations.  Each one is a call of a method made through    *)
(* the registry with its own data, input path, tail and accumulator; the   *)
(* lazy static ARROW_METHODS is all they share.  evals[e] is the state of  *)
(* evaluation e: [job, at, errors, result].                                *)
(***************************************************************************)
Job(name, args, on, rest, ip, errs) ==
    [name |-> name, args |-> args, data |-> on, tail |-> rest, path |-> ip,
     errors |-> errs]

Jobs ==
    <<Job("match", Parens(<<ArrLit(<<AtNope, Lit(Chr("c"))>>),
                            ArrLit(<<At, Lit(Chr("b"))>>)>>),
          JInt(1), <<Call("typeof", NoParens)>>, Path0, <<>>),
      Job("or", Parens(<<AtBogus, Lit(JBool(TRUE))>>), JInt(0), <<>>, Path0,
          <<Earlier>>),
      Job("map", Parens(<<AtBogus>>), JArr(<<JInt(1), JInt(0)>>), <<>>, <<>>, <<>>),
      Job("add", Parens(<<Lit(JInt(1))>>), JInt(IntMax), <<>>, Path0, <<>>),
      Job("bogus", NoParens, JInt(1), <<>>, Path0, <<>>),
      Job("match_if", Parens(<<ArrLit(<<At, Lit(Chr("a"))>>)>>), JBool(FALSE),
          <<Call("bogus", NoParens)>>, <<>>, <<Earlier>>)>>

InitC ==
    /\ registry = Unpopulated
    /\ \E f \in [1..NEvals -> DOMAIN Jobs] :
         evals = [e \in 1..NEvals |->
                    [job |-> Jobs[f[e]], at |-> "start",
                     errors |-> Jobs[f[e]].errors, result |-> NoResult]]
    /\ overflow_checks \in BOOLEAN
    /\ vars = Vars0
    /\ pc = "concurrent"
    /\ method_name = "echo" /\ method_args = NoParens /\ data = JNull
    /\ input_path = Path0 /\ tail = <<>> /\ errors0 = <<>>
    /\ result = NoResult

Single == <<pc, method_name, method_args, data, vars, input_path, tail,
            overflow_checks, errors0, result>>

\* A static that can be read while it is being built.
ReadableDuringInit(reg) == reg.state # "uninit"

\* lazy_static: a dereference waits until the map is built (Once).
Readable(reg) == reg.state = "ready"

\* The first dereference finds the static untouched and starts building.
BeginInit(e) ==
    /\ evals[e].at = "start" /\ registry.state = "uninit"
    /\ registry' = [state |-> "running", methods |-> {}, by |-> e]
    /\ evals' = [evals EXCEPT ![e].at = "init"]
    /\ UNCHANGED Single

\* The initializer has inserted the methods; the map is now shared.
FinishInit(e) ==
    /\ evals[e].at = "init" /\ registry.by = e
    /\ registry' = [registry EXCEPT !.state = "ready", !.methods = ARROW_METHODS]
    /\ evals' = [evals EXCEPT ![e].at = "start"]
    /\ UNCHANGED Single

\* ARROW_METHODS.get(name)
Lookup(e) ==
    /\ evals[e].at = "start" /\ Readable(registry)
    /\ evals' = [evals EXCEPT ![e].at =
                   IF evals[e].job.name \in registry.methods THEN "call"
                   ELSE "missing"]
    /\ UNCHANGED <<registry, Single>>

CtxOf(e) == [errors |-> evals[e].errors, log |-> <<>>, depth |-> 0, panic |-> FALSE]

Finish(e, r) ==
    /\ evals' = [evals EXCEPT ![e].at = "done", ![e].errors = r.c.errors,
                               ![e].result = Outcome(r)]
    /\ UNCHANGED <<registry, Single>>

\* The method found is called with the evaluation's own arguments.
CallMethod(e) ==
    /\ evals[e].at = "call"
    /\ Finish(e, Dispatch(evals[e].job.name, evals[e].job.args, evals[e].job.data,
                          Env, evals[e].job.path, evals[e].job.tail, CtxOf(e)))

\* The lookup missed: the caller inserts "not found".
Missing(e) ==
    /\ evals[e].at = "missing"
    /\ Finish(e, Fail(evals[e].job.name, "not found", JNull, evals[e].job.path,
                      CtxOf(e)))

NextC ==
    \E e \in 1..NEvals :
        \/ BeginInit(e) \/ FinishInit(e) \/ Lookup(e)
        \/ CallMethod(e) \/ Missing(e)

SpecC == InitC /\ [][NextC]_allvars


(***************************************************************************)
(* What the claims speak about.                                            *)
(***************************************************************************)
Finished == pc = "done"
Args == method_args.args
\* The errors the call added to the accumulator.
NewErrors == SubSeq(result.errors, Len(errors0) + 1, Len(result.errors))
\* The evaluations the call made itself, by kind.
ArgEvents == SelectSeq(result.log, LAMBDA e : e.ev = "arg")
TailEvents == SelectSeq(result.log, LAMBDA e : e.ev = "tail")
ErrorAt(text, n) == ApplyToError(method_name, text, n, input_path)

ArithNames == {"add", "sub", "mul", "div", "mod"}
OpOf(name) ==
    CASE name = "add" -> "+" [] name = "sub" -> "-" [] name = "mul" -> "*"
      [] name = "div" -> "/" [] OTHER -> "%"

NumericLits(args) ==
    \A i \in DOMAIN args : args[i].t = "lit" /\ is_number(args[i].json)

\* One fold step in exact arithmetic: [ok, val], ok being FALSE when the
\* divisor is zero or the number type cannot hold the result (for the
\* remainder of i64::MIN by -1: the quotient it is the remainder of).
ExactStep(op, a, b) ==
    IF is_f64(a) \/ is_f64(b)
    THEN LET f == FloatOp(op, as_f64(a), as_f64(b))
         IN  [ok |-> f.finite, val |-> [k |-> "float", v |-> f.v]]
    ELSE IF op \in {"/", "%"} /\ b.v = 0 THEN [ok |-> FALSE, val |-> JNull]
    ELSE IF op = "%" /\ a.v = IntMin /\ b.v = -1 THEN [ok |-> FALSE, val |-> JNull]
    ELSE LET exact == CASE op = "+" -> a.v + b.v
                        [] op = "-" -> a.v - b.v
                        [] op = "*" -> a.v * b.v
                        [] op = "/" -> TruncDiv(a.v, b.v)
                        [] OTHER -> TruncRem(a.v, b.v)
         IN  [ok |-> exact >= IntMin /\ exact <= IntMax, val |-> JInt(exact)]

\* The first argument at which the fold has no representable result, 0 if
\* there is none (or an operand is neither an i64 nor a float).
RECURSIVE FirstBadStep(_, _, _, _)
FirstBadStep(op, acc, args, i) ==
    IF i > Len(args) THEN 0
    ELSE IF ~(is_f64(acc) \/ is_f64(args[i].json)
              \/ (has_i64(acc) /\ has_i64(args[i].json)))
    THEN 0
    ELSE IF ~ExactStep(op, acc, args[i].json).ok THEN i
    ELSE FirstBadStep(op, ExactStep(op, acc, args[i].json).val, args, i + 1)

ArithCase ==
    /\ Finished /\ method_name \in ArithNames /\ method_args.some
    /\ is_number(data) /\ NumericLits(Args)
BadStep == FirstBadStep(OpOf(method_name), data, Args, 1)

\* C1: an arithmetic fold step that divides by zero or whose result the
\* number type cannot hold never panics or wraps: the call returns no value
\* and inserts "Method ->{name} failed on argument {n}" at the input path.
C1_FailedOnArgument ==
    (ArithCase /\ BadStep > 0) =>
        /\ ~result.panic
        /\ ~result.some
        /\ InSeq(ErrorAt("failed on argument", Args[BadStep].json), result.errors)

(***************************************************************************)
(* slice                                                                   *)
(***************************************************************************)
\* The bound given by argument i: its integer, or the default when the
\* argument is absent or no integer; clamped to [0, len].
ClampedBound(args, i, default, len) ==
    LET given == i <= Len(args) /\ args[i].t = "lit" /\ has_i64(args[i].json)
    IN  Min(Max(IF given THEN args[i].json.v ELSE default, 0), len)

SliceCase ==
    /\ Finished /\ method_name = "slice" /\ method_args.some
    /\ data.k \in {"arr", "str"}
    /\ \A i \in DOMAIN Args : Args[i].t = "lit"
    /\ tail = <<>>

SliceExpected ==
    LET len == Len(data.v)
        start == ClampedBound(Args, 1, 0, len)
        end == ClampedBound(Args, 2, len, len)
    IN  [k |-> data.k, v |-> SubSeq(data.v, start + 1, end)]

\* C2: slice with an argument list on an array or string of length L
\* clamps its bounds to [0, L] and returns exactly the elements or
\* characters at positions start..end-1, the empty array or string when
\* start >= end, inserting no error and never panicking.
C2_SliceClamps ==
    SliceCase =>
        /\ ~result.panic
        /\ result.some
        /\ result.val = SliceExpected
        /\ NewErrors = <<>>

(***************************************************************************)
(* Tail and error discipline                                               *)
(***************************************************************************)
\* C3: a registered method that returns a value has applied the tail
\* exactly once to its own result (map over an array: at most once to each
\* element's result, at that element's path).
C3_TailAppliedOnce ==
    (Finished /\ method_name \in ARROW_METHODS /\ result.some) =>
        IF method_name = "map" /\ data.k = "arr"
        THEN \A i \in 1..Len(data.v) :
               Len(SelectSeq(TailEvents,
                             LAMBDA e : e.path = Append(input_path, JInt(i - 1)))) <= 1
        ELSE Len(TailEvents) = 1

\* C4: a method that returns no value leaves at least one error at the
\* invocation's input path, unless it is first or last on an empty array
\* (stated for calls entered with an empty accumulator, so that the error
\* is the call's own).
C4_NoneHasError ==
    (/\ Finished /\ method_name \in ARROW_METHODS /\ errors0 = <<>>
     /\ ~result.some /\ ~result.panic
     /\ ~(method_name \in {"first", "last"} /\ data = JArr(<<>>) /\ ~method_args.some))
    => \E i \in DOMAIN NewErrors :
          /\ Len(NewErrors[i].path) >= Len(input_path)
          /\ SubSeq(NewErrors[i].path, 1, Len(input_path)) = input_path


(***************************************************************************)
(* Arity                                                                   *)
(***************************************************************************)
\* The call inserted exactly one error, at the input path, naming the method.
OneErrorNamingMethod ==
    /\ Len(NewErrors) = 1
    /\ NewErrors[1].path = input_path
    /\ NewErrors[1].message[1] = method_name

\* C5: echo, map and eq take exactly one argument: without parentheses,
\* with an empty list or with two or more arguments they return no value,
\* evaluate no argument, do not apply the tail and insert exactly one arity
\* error naming the method at the input path.
C5_ExactlyOneArgument ==
    (/\ Finished /\ method_name \in {"echo", "map", "eq"}
     /\ (~method_args.some \/ Len(Args) # 1))
    => /\ ~result.some /\ ~result.panic
       /\ result.log = <<>>
       /\ OneErrorNamingMethod

ZeroArgsText(name) ==
    CASE name \in ArithNames -> "requires at least one argument"
      [] name \in {"or", "and"} -> "requires arguments"
      [] name = "match" -> "did not match any [candidate, value] pair"
      [] OTHER -> "did not match any [condition, value] pair"

\* C6: add, sub, mul, div, mod, or, and, match, matchIf and match_if never
\* return a value when given zero arguments, without parentheses or with
\* empty parentheses: they insert exactly one error at the input path.
C6_AtLeastOneArgument ==
    (/\ Finished
     /\ method_name \in ArithNames \cup {"or", "and", "match", "matchIf", "match_if"}
     /\ Args = <<>>)
    => /\ ~result.some /\ ~result.panic
       /\ NewErrors = <<ErrorAt(ZeroArgsText(method_name), JNull)>>

\* C7: typeof, first, last and not take no arguments: with a non-empty
\* list they return no value, do not apply the tail and insert exactly one
\* "does not take any arguments" error at the input path; with zero
\* arguments, without parentheses or with empty ones, they insert no arity
\* error.
C7_NoArguments ==
    (Finished /\ method_name \in {"typeof", "first", "last", "not"}) =>
        IF Args # <<>>
        THEN /\ ~result.some /\ ~result.panic
             /\ result.log = <<>>
             /\ NewErrors = <<ErrorAt("does not take any arguments", JNull)>>
        ELSE ~InSeq(ErrorAt("does not take any arguments", JNull), NewErrors)

(***************************************************************************)
(* map                                                                     *)
(***************************************************************************)
\* A context for evaluating an expression on its own, below the call.
Probe(errors) == [errors |-> errors, log |-> <<>>, depth |-> 1, panic |-> FALSE]

MapCase == Finished /\ method_name = "map" /\ method_args.some /\ Len(Args) = 1

\* f applied to element i and the tail applied to that, at the path of i.
MapElementAlone(i) ==
    AndThenTail(ApplyLit(Args[1], data.v[i], Env, Append(input_path, JInt(i - 1)),
                         Probe(<<>>)),
                tail, Env, Append(input_path, JInt(i - 1)))

SameAs(r) ==
    /\ result.panic = r.c.panic
    /\ ~r.c.panic =>
         /\ result.some = r.some
         /\ r.some => result.val = r.val
         /\ result.errors = r.c.errors

\* C8: map with one argument f over an array A always returns an array of
\* the length of A holding at i the tail applied to f(A[i]), or null when
\* that has no value; over a non-array it yields the value and the errors
\* of f evaluated against the data at the same path.
C8_MapElementwise ==
    MapCase =>
        IF data.k = "arr"
        THEN /\ result.some
             /\ result.val.k = "arr"
             /\ Len(result.val.v) = Len(data.v)
             /\ \A i \in 1..Len(data.v) :
                  result.val.v[i] = IF MapElementAlone(i).some
                                    THEN MapElementAlone(i).val ELSE JNull
        ELSE SameAs(ApplyLit(Args[1], data, Env, input_path, Probe(errors0)))


(***************************************************************************)
(* match and matchIf                                                       *)
(***************************************************************************)
\* The expression evaluated on its own against the data of the call.
Alone(expr) == ApplyLit(expr, data, Env, input_path, Probe(<<>>))
HasValue(r) == r.some /\ ~r.c.panic

\* Pair i of the call in the shapes the method looks at (lens), and what
\* its first element does: stop the iteration by deciding or by aborting.
IsPair(i, lens) == Args[i].t = "arr" /\ Len(Args[i].items) \in lens
Chosen(i) == Args[i].items[Len(Args[i].items)]

MatchDecides(i) ==
    /\ IsPair(i, {1, 2})
    /\ \/ Len(Args[i].items) = 1
       \/ /\ HasValue(Alone(Args[i].items[1]))
          /\ Alone(Args[i].items[1]).val = data

MatchIfDecides(i) ==
    /\ IsPair(i, {2})
    /\ HasValue(Alone(Args[i].items[1]))
    /\ Alone(Args[i].items[1]).val = JBool(TRUE)

Decides(i) == IF method_name = "match" THEN MatchDecides(i) ELSE MatchIfDecides(i)
Lens == IF method_name = "match" THEN {1, 2} ELSE {2}
Stops(i) ==
    Decides(i) \/ (IsPair(i, Lens) /\ Alone(Args[i].items[1]).c.panic)
FirstStop(d) == Stops(d) /\ \A j \in 1..(d - 1) : ~Stops(j)

\* The expressions the call must evaluate, in order, when the iteration
\* runs over the arguments i..d: the first element of every pair and,
\* after it, the second element of a two-element pair that decides.
RECURSIVE PairOrder(_, _)
PairOrder(i, d) ==
    IF i > d THEN <<>>
    ELSE (IF ~IsPair(i, Lens) THEN <<>>
          ELSE IF Decides(i) /\ Len(Args[i].items) = 2
          THEN <<Args[i].items[1], Args[i].items[2]>>
          ELSE <<Args[i].items[1]>>) \o PairOrder(i + 1, d)

Evaluated == [i \in DOMAIN ArgEvents |-> ArgEvents[i].expr]

\* The value of the pair the call returns: the tail applied to the chosen
\* element of pair d, or nothing when that element has no value.
PairValue(d) ==
    AndThenTail(Alone(Chosen(d)), tail, Env, input_path)

ReturnsPair(d) ==
    /\ Evaluated = PairOrder(1, d)
    /\ \A i \in DOMAIN ArgEvents : ArgEvents[i].on = data
    /\ result.panic = PairValue(d).c.panic
    /\ ~result.panic =>
         /\ result.some = PairValue(d).some
         /\ result.some => result.val = PairValue(d).val
         /\ Len(TailEvents) = IF HasValue(Alone(Chosen(d))) THEN 1 ELSE 0
         /\ \A i \in DOMAIN TailEvents : TailEvents[i].on = Alone(Chosen(d)).val

ReturnsNoPair(text) ==
    /\ ~result.some
    /\ Evaluated = PairOrder(1, Len(Args))
    /\ TailEvents = <<>>
    /\ ~result.panic => InSeq(ErrorAt(text, JNull), result.errors)

PairsInOrder(text) ==
    IF \E d \in DOMAIN Args : FirstStop(d)
    THEN \A d \in DOMAIN Args :
           FirstStop(d) => IF Decides(d) THEN ReturnsPair(d)
                           ELSE result.panic /\ Evaluated = PairOrder(1, d)
    ELSE ReturnsNoPair(text)

\* C9: match with arguments evaluates its pairs in argument order and
\* returns at the first pair that decides: a one-element pair returns its
\* element with the tail applied, a two-element pair returns its value
\* with the tail applied iff its candidate equals the data; nothing after
\* the deciding pair is evaluated and arguments that are not array
\* literals are skipped.
C9_MatchInOrder ==
    (Finished /\ method_name = "match" /\ Args # <<>>)
    => PairsInOrder("did not match any [candidate, value] pair")

\* A first pair whose candidate has a value other than the data, passed
\* over for a second pair that matches, and the tail applied to its value.
C9_Witness ==
    /\ Finished /\ method_name = "match" /\ Len(Args) = 2 /\ tail # <<>>
    /\ IsPair(1, {2}) /\ HasValue(Alone(Args[1].items[1])) /\ ~Stops(1)
    /\ IsPair(2, {2}) /\ MatchDecides(2)
    /\ result.some /\ Len(ArgEvents) = 3 /\ Len(TailEvents) = 1

\* The error list with the alias's name read as matchIf.
Canonical(errs) ==
    [i \in DOMAIN errs |->
       IF errs[i].message[1] = "match_if"
       THEN [errs[i] EXCEPT !.message[1] = "matchIf"] ELSE errs[i]]

OtherName == IF method_name = "matchIf" THEN "match_if" ELSE "matchIf"

SameUnderOtherName ==
    LET other == Outcome(Dispatch(OtherName, method_args, data, Env, input_path,
                                  tail, Ctx0))
    IN  /\ other.some = result.some /\ other.val = result.val
        /\ other.panic = result.panic /\ other.log = result.log
        /\ Canonical(other.errors) = Canonical(result.errors)

\* C10: matchIf returns the second element, with the tail applied, of the
\* first pair in argument order whose first element evaluates to exactly
\* true; a condition that is truthy but not true, false or without a value
\* never selects its pair; match_if gives the same outcome on the same
\* input but for the method name in its error.
C10_MatchIfExactlyTrue ==
    (Finished /\ method_name \in {"matchIf", "match_if"})
    => /\ PairsInOrder("did not match any [condition, value] pair")
       /\ SameUnderOtherName

\* A first pair whose condition is truthy but not true, passed over for a
\* second pair whose condition is true.
C10_Witness ==
    /\ Finished /\ method_name \in {"matchIf", "match_if"} /\ Len(Args) = 2
    /\ IsPair(1, {2}) /\ HasValue(Alone(Args[1].items[1]))
    /\ is_truthy(Alone(Args[1].items[1]).val)
    /\ Alone(Args[1].items[1]).val # JBool(TRUE)
    /\ IsPair(2, {2}) /\ MatchIfDecides(2)
    /\ result.some /\ Len(ArgEvents) = 3


DidNotMatch ==
    ErrorAt(IF method_name = "match"
            THEN "did not match any [candidate, value] pair"
            ELSE "did not match any [condition, value] pair", JNull)

Count(x, s) == Cardinality({i \in DOMAIN s : s[i] = x})

\* The argument list ends with a pair that decides whatever the data is.
EndsWithDefault ==
    /\ Args # <<>>
    /\ Args[Len(Args)].t = "arr"
    /\ IF method_name = "match" THEN Len(Args[Len(Args)].items) = 1
       ELSE /\ Len(Args[Len(Args)].items) = 2
            /\ Args[Len(Args)].items[1] = Lit(JBool(TRUE))

\* C11: when no pair of match, matchIf or match_if matches the data the
\* call returns no value and inserts exactly one "did not match" error at
\* the input path; when the argument list ends with a [default] pair
\* (match) or a [true, default] pair (matchIf) the call yields a value
\* whatever the data.
C11_NoMatchOrDefault ==
    (Finished /\ method_name \in {"match", "matchIf", "match_if"}) =>
        /\ (\A i \in DOMAIN Args : ~Decides(i)) =>
              /\ ~result.some /\ ~result.panic
              /\ Count(DidNotMatch, NewErrors) = 1
        /\ (EndsWithDefault /\ tail = <<>>) => result.some


(***************************************************************************)
(* or and and                                                              *)
(***************************************************************************)
LogicCase == Finished /\ method_name \in {"or", "and"} /\ method_args.some
Decisive == method_name = "or"

\* The truthiness of the data (k = 0) and of argument k evaluated on its
\* own, an argument without a value counting as false.
Truth(k) ==
    IF k = 0 THEN is_truthy(data)
    ELSE HasValue(Alone(Args[k])) /\ is_truthy(Alone(Args[k]).val)

Halts(k) == (k > 0 /\ Alone(Args[k]).c.panic) \/ Truth(k) = Decisive

\* The last argument the call may evaluate: the first point where the
\* running result is decisive (or the evaluation aborts), else the last.
LastEvaluated ==
    IF \E k \in 0..Len(Args) : Halts(k)
    THEN CHOOSE k \in 0..Len(Args) : Halts(k) /\ \A j \in 0..(k - 1) : ~Halts(j)
    ELSE Len(Args)

LogicValue ==
    IF Decisive THEN \E k \in 0..LastEvaluated : Truth(k)
    ELSE \A k \in 0..LastEvaluated : Truth(k)

TailAlone(v) == ApplyPath(tail, v, Env, input_path, Probe(<<>>))

\* C12: or and and start from the truthiness of the data, evaluate their
\* arguments left to right and stop at the first point where the running
\* result is true (or) or false (and): nothing after it is evaluated and
\* no error of a skipped argument appears; the tail receives the OR (AND)
\* of the truthiness of the data and of the evaluated arguments, an
\* argument without a value counting as false.
C12_ShortCircuit ==
    LogicCase =>
        /\ Evaluated = SubSeq(Args, 1, LastEvaluated)
        /\ \A i \in DOMAIN ArgEvents : ArgEvents[i].on = data
        /\ \A i \in DOMAIN NewErrors :
             \/ \E k \in 1..LastEvaluated :
                  InSeq(NewErrors[i], Alone(Args[k]).c.errors)
             \/ InSeq(NewErrors[i], TailAlone(JBool(LogicValue)).c.errors)
        /\ result.panic = (LastEvaluated > 0 /\ Alone(Args[LastEvaluated]).c.panic)
        /\ ~result.panic =>
             /\ Len(TailEvents) = 1
             /\ TailEvents[1].on = JBool(LogicValue)
             /\ result.some = TailAlone(JBool(LogicValue)).some
             /\ result.some => result.val = TailAlone(JBool(LogicValue)).val

\* An or on falsy data whose first argument is true and whose second,
\* never evaluated, would have inserted an error.
C12_Witness ==
    /\ LogicCase /\ method_name = "or" /\ ~is_truthy(data)
    /\ Len(Args) = 2 /\ Truth(1) /\ Args[2] = AtBogus
    /\ Len(ArgEvents) = 1 /\ NewErrors = <<>>
    /\ tail = <<>> /\ result.some /\ result.val = JBool(TRUE)


(***************************************************************************)
(* not                                                                     *)
(***************************************************************************)
\* Truthiness as the specification tabulates it.
Truthiness(x) ==
    IF x.k = "bool" THEN x = JBool(TRUE)
    ELSE IF x.k = "null" THEN FALSE
    ELSE IF x.k = "int" THEN x # JInt(0)
    ELSE IF x.k = "float" THEN x # JFloat(0, 1)
    ELSE IF x.k = "str" THEN Len(x.v) > 0
    ELSE x.k \in {"arr", "obj"}

NotCase == Finished /\ method_name = "not" /\ ~method_args.some

\* C13: not hands the tail the negation of the truthiness of data (false,
\* zero, null and the empty string are false; every array and object is
\* true), so that x->not->not is the truthiness of x and x->not->not->not
\* is x->not.
C13_NotNegatesTruthiness ==
    NotCase =>
        /\ Len(TailEvents) = 1
        /\ TailEvents[1].on = JBool(~Truthiness(data))
        /\ tail = <<>> => result.some /\ result.val = JBool(~Truthiness(data))
        /\ tail = NotTails[1] => result.some /\ result.val = JBool(Truthiness(data))
        /\ tail = NotTails[2] => result.some /\ result.val = JBool(~Truthiness(data))

\* The empty array, which is truthy, negated three times.
C13_Witness ==
    /\ NotCase /\ data = JArr(<<>>) /\ tail = NotTails[2]
    /\ result.some /\ result.val = JBool(FALSE)


(***************************************************************************)
(* first and last                                                          *)
(***************************************************************************)
FirstLastCase ==
    Finished /\ method_name \in {"first", "last"} /\ ~method_args.some

\* The tail was applied once, to v, and the call returned what it gave.
PassedToTail(v) ==
    /\ Len(TailEvents) = 1
    /\ TailEvents[1].on = v
    /\ TailEvents[1].path = input_path
    /\ result.some = TailAlone(v).some
    /\ result.some => result.val = TailAlone(v).val

\* C14: first and last without arguments yield the tail applied to A[0]
\* and to A[len(A)-1] on a non-empty array A, no value and no error on an
\* empty array, and pass any non-array data through unchanged to the tail.
C14_FirstLast ==
    FirstLastCase =>
        IF data.k # "arr" THEN PassedToTail(data)
        ELSE IF data.v = <<>>
        THEN ~result.some /\ NewErrors = <<>> /\ TailEvents = <<>>
        ELSE PassedToTail(IF method_name = "first" THEN data.v[1]
                          ELSE data.v[Len(data.v)])

\* last on an array of three elements, returning the third.
C14_Witness ==
    /\ FirstLastCase /\ method_name = "last" /\ data.k = "arr"
    /\ Len(data.v) = 3 /\ data.v[1] # data.v[3] /\ data.v[2] # data.v[3]
    /\ tail = <<>> /\ result.some /\ result.val = data.v[3]


(***************************************************************************)
(* eq                                                                      *)
(***************************************************************************)
EqCase == Finished /\ method_name = "eq" /\ method_args.some /\ Len(Args) = 1

\* The argument has a value and it equals the data.
EqHolds == HasValue(Alone(Args[1])) /\ Alone(Args[1]).val = data

\* What eq does whenever it gets to compare.
EqCompares ==
    /\ Evaluated = Args
    /\ PassedToTail(JBool(EqHolds))
    /\ \A i \in DOMAIN NewErrors :
         \/ InSeq(NewErrors[i], Alone(Args[1]).c.errors)
         \/ InSeq(NewErrors[i], TailAlone(JBool(EqHolds)).c.errors)

\* C15: eq with exactly one argument always hands the tail a boolean, true
\* iff the argument evaluates to a value equal to the data and false when
\* the values differ or the argument has no value, and inserts no error of
\* its own.
C15_EqAlwaysBoolean ==
    EqCase => ~result.panic /\ EqCompares


(***************************************************************************)
(* The error accumulator                                                   *)
(***************************************************************************)
\* The errors which the evaluation recorded by ev produces on its own.
ErrorsOf(ev) == ApplyLit(ev.expr, ev.on, Env, ev.path, Probe(<<>>)).c.errors

\* C16: the accumulator only grows: after a call it holds the errors it
\* held before, in the same order and ahead of the new ones, no two
\* entries are equal in message and path, and every error produced while
\* evaluating an argument, candidate or condition is still there, also
\* when the value of that evaluation was abandoned.
C16_ErrorsOnlyGrow ==
    Finished =>
        /\ Len(result.errors) >= Len(errors0)
        /\ SubSeq(result.errors, 1, Len(errors0)) = errors0
        /\ \A i, j \in DOMAIN result.errors :
             i # j => result.errors[i] # result.errors[j]
        /\ \A i \in DOMAIN ArgEvents :
             \A j \in DOMAIN ErrorsOf(ArgEvents[i]) :
               InSeq(ErrorsOf(ArgEvents[i])[j], result.errors)

\* A match entered with an error in the accumulator, whose first candidate
\* inserts another one and has no value, and whose second pair decides.
C16_Witness ==
    /\ Finished /\ method_name = "match" /\ errors0 = <<Earlier>>
    /\ Len(Args) = 2 /\ IsPair(1, {2}) /\ ~Alone(Args[1].items[1]).some
    /\ Alone(Args[1].items[1]).c.errors # <<>>
    /\ result.some
    /\ result.errors = errors0 \o Alone(Args[1].items[1]).c.errors


(***************************************************************************)
(* The arithmetic fold                                                     *)
(***************************************************************************)
\* (..((x op a1) op a2)..) op an over the arguments i..n, exactly.
RECURSIVE LeftFold(_, _, _, _)
LeftFold(op, acc, args, i) ==
    IF i > Len(args) THEN acc
    ELSE LeftFold(op, ExactStep(op, acc, args[i].json).val, args, i + 1)

\* A fold over i64 and float operands every step of which has a result
\* the number type holds.
FoldCase ==
    /\ ArithCase /\ (has_i64(data) \/ is_f64(data))
    /\ BadStep = 0

HasFloatOperand ==
    is_f64(data) \/ \E i \in DOMAIN Args : is_f64(Args[i].json)

\* C17: add, sub, mul, div and mod fold from the left, starting from the
\* number of data and taking the arguments in order; a step is computed in
\* floating point if the running result or the argument is a float and
\* else in signed integers with truncating division and remainder, so an
\* integer-only fold yields an integer and one with a float operand a
\* float.
C17_LeftFold ==
    FoldCase =>
        /\ ~result.panic
        /\ Evaluated = Args
        /\ PassedToTail(LeftFold(OpOf(method_name), data, Args, 1))
        /\ TailEvents[1].on.k = IF HasFloatOperand THEN "float" ELSE "int"

\* 7->sub(2, 0.5) = (7 - 2) - 0.5 = 4.5
C17_Witness ==
    /\ FoldCase /\ method_name = "sub" /\ data = JInt(7)
    /\ Args = <<Lit(JInt(2)), Lit(JFloat(1, 2))>>
    /\ tail = <<>> /\ result.some /\ result.val = JFloat(9, 2)


(***************************************************************************)
(* typeof                                                                  *)
(***************************************************************************)
TypeofCase == Finished /\ method_name = "typeof" /\ ~method_args.some

\* The name of the runtime kind of x as the specification tabulates it.
KindName(x) ==
    IF x = JNull THEN "null"
    ELSE IF x.k = "bool" THEN "boolean"
    ELSE IF x.k = "int" \/ x.k = "float" THEN "number"
    ELSE IF x.k = "str" THEN "string"
    ELSE IF x.k = "arr" THEN "array"
    ELSE "object"

\* C18: typeof without arguments hands the tail exactly one of "object",
\* "array", "string", "number", "boolean", "null", decided by the kind of
\* data alone: null gives "null", integers and floats give "number", every
\* array gives "array".
C18_TypeofKind ==
    TypeofCase =>
        /\ PassedToTail(JStr(TypeChars(KindName(data))))
        /\ \A i \in DOMAIN NewErrors :
             InSeq(NewErrors[i], TailAlone(JStr(TypeChars(KindName(data)))).c.errors)

\* typeof of null, which is "null" and not "object".
C18_Witness ==
    /\ TypeofCase /\ data = JNull /\ tail = <<>> /\ errors0 = <<>>
    /\ result.some /\ result.val = JStr(<<"n", "u", "l", "l">>)


(***************************************************************************)
(* Method lookup                                                           *)
(***************************************************************************)
\* The names the specification lists as registered.
RegisteredNames ==
    {"echo", "typeof", "map", "eq", "match", "matchIf", "match_if", "add",
     "sub", "mul", "div", "mod", "first", "last", "slice", "not", "or", "and"}

\* The call as the path evaluator makes it: lookup, then the method.
Looked ==
    Outcome(ApplyPath(<<Call(method_name, method_args)>> \o tail, data, Env,
                      input_path, Ctx0))

NotFoundError == ErrorAt("not found", JNull)

\* C19: lookup succeeds exactly for the registered names; a call of any
\* other name never panics, yields no value, runs nothing and leaves
\* exactly one error "Method ->{name} not found" at the path of the
\* receiver.
C19_LookupExact ==
    Finished =>
        IF method_name \in RegisteredNames
        THEN /\ Looked = result
             /\ ~InSeq(NotFoundError, NewErrors)
        ELSE /\ ~result.some /\ ~result.panic
             /\ result.log = <<>>
             /\ Count(NotFoundError, result.errors) = 1
             /\ \A i \in DOMAIN NewErrors : NewErrors[i] = NotFoundError

\* A name that differs from a registered one only in case.
C19_Witness ==
    /\ Finished /\ method_name = "matchif" /\ method_args.some
    /\ tail # <<>> /\ errors0 = <<>>
    /\ ~result.some /\ result.errors = <<NotFoundError>>


(***************************************************************************)
(* Concurrent evaluations                                                  *)
(***************************************************************************)
\* What the job yields when it is evaluated alone.
AloneOutcome(j) ==
    Outcome(ApplyPath(<<Call(j.name, j.args)>> \o j.tail, j.data, Env, j.path,
                      [errors |-> j.errors, log |-> <<>>, depth |-> 0,
                       panic |-> FALSE]))

EvaluationsIsolated ==
    /\ pc = "concurrent"
    /\ registry.state = "ready" => registry.methods = ARROW_METHODS
    /\ \A e \in DOMAIN evals :
         IF evals[e].at = "done"
         THEN /\ evals[e].result = AloneOutcome(evals[e].job)
              /\ evals[e].errors = evals[e].result.errors
         ELSE /\ evals[e].errors = evals[e].job.errors
              /\ evals[e].result = NoResult

RegistryFrozen ==
    /\ registry.state = "ready" => registry' = registry
    /\ registry.state = "running" =>
         registry'.by = registry.by /\ registry'.state \in {"running", "ready"}

ArithRejectCase == Finished /\ method_name \in ArithNames /\ method_args.some

\* Argument i, evaluated on its own, is a number.
NumericAt(i) == HasValue(Alone(Args[i])) /\ is_number(Alone(Args[i]).val)

\* The steps of the fold over the arguments i..(k - 1) all have operands
\* the operation takes and a result the number type holds.
RECURSIVE FoldFine(_, _, _, _)
FoldFine(op, acc, i, k) ==
    IF i >= k THEN TRUE
    ELSE /\ NumericAt(i)
         /\ is_f64(acc) \/ is_f64(Alone(Args[i]).val)
            \/ (has_i64(acc) /\ has_i64(Alone(Args[i]).val))
         /\ ExactStep(op, acc, Alone(Args[i]).val).ok
         /\ FoldFine(op, ExactStep(op, acc, Alone(Args[i]).val).val, i + 1, k)

\* Argument k is the first bad one: not a number, after a fold that went
\* well up to it.
FirstNonNumeric(k) ==
    /\ ~NumericAt(k) /\ ~Alone(Args[k]).c.panic
    /\ FoldFine(OpOf(method_name), data, 1, k)

RequiresNumeric == ErrorAt("requires numeric arguments", JNull)

\* The call stopped after evaluating the arguments 1..k and rejected.
RejectedAfter(k) ==
    /\ ~result.some /\ ~result.panic
    /\ Evaluated = SubSeq(Args, 1, k)
    /\ TailEvents = <<>>
    /\ Count(RequiresNumeric, NewErrors) = 1
    /\ \A i \in DOMAIN NewErrors :
         \/ NewErrors[i] = RequiresNumeric
         \/ \E j \in 1..k : InSeq(NewErrors[i], Alone(Args[j]).c.errors)

\* C21: the arithmetic methods reject operands that are not numbers and
\* stop at the first bad argument: on data that is not a number they
\* evaluate no argument, at an argument that is not a number or has no
\* value the fold stops; either way they return no value, insert
\* "requires numeric arguments" at the input path, evaluate no later
\* argument and do not apply the tail.
C21_RequiresNumeric ==
    ArithRejectCase =>
        IF ~is_number(data) THEN RejectedAfter(0)
        ELSE \A k \in DOMAIN Args : FirstNonNumeric(k) => RejectedAfter(k)

\* A fold whose first argument is a string and whose second, never
\* evaluated, would have inserted an error.
C21_Witness ==
    /\ ArithRejectCase /\ is_number(data) /\ errors0 = <<>>
    /\ Len(Args) = 2 /\ Args[1] = Lit(Chr("x")) /\ Args[2] = AtBogus
    /\ ~result.some /\ result.errors = <<RequiresNumeric>>
    /\ Len(ArgEvents) = 1



(***************************************************************************)
(* Input paths during iteration                                            *)
(***************************************************************************)
MapArrayCase ==
    /\ Finished /\ method_name = "map"
    /\ method_args.some /\ Len(Args) >= 1 /\ data.k = "arr"

\* The path of element i (counted from 1): the caller's path and index i - 1.
ElementPath(i) == Append(input_path, JInt(i - 1))

\* What processing element i alone records: the argument on the element and
\* the tail on its value, both at the element's path.
ElementErrors(i) ==
    AndThenTail(ApplyLit(Args[1], data.v[i], Env, ElementPath(i), Probe(<<>>)),
                tail, Env, ElementPath(i)).c.errors

\* The k-th evaluation of the argument is the one of element k.
ArgOfElement(k) ==
    ArgEvents[k] = [ev |-> "arg", expr |-> Args[1], on |-> data.v[k],
                    path |-> ElementPath(k), vars |-> vars]

\* Entry k of the log, a tail, follows the argument of the same element and
\* receives its value at the same path.
TailOfElement(k) ==
    /\ k > 1
    /\ result.log[k - 1].ev = "arg"
    /\ result.log[k].expr = tail
    /\ result.log[k].path = result.log[k - 1].path
    /\ result.log[k].vars = vars
    /\ result.log[k].on = ApplyLit(result.log[k - 1].expr, result.log[k - 1].on,
                                   Env, result.log[k - 1].path, Probe(<<>>)).val

ElementsApart ==
    /\ Len(ArgEvents) <= Len(data.v)
    /\ ~result.panic => Len(ArgEvents) = Len(data.v)
    /\ \A k \in DOMAIN ArgEvents : ArgOfElement(k)
    /\ \A k \in DOMAIN result.log : result.log[k].ev = "tail" => TailOfElement(k)
    /\ \A e \in DOMAIN NewErrors :
         \E i \in DOMAIN data.v :
            /\ NewErrors[e].path = ElementPath(i)
            /\ InSeq(NewErrors[e], ElementErrors(i))
    /\ ~result.panic =>
         \A i \in DOMAIN data.v : \A e \in DOMAIN ElementErrors(i) :
            /\ InSeq(ElementErrors(i)[e], NewErrors)
            /\ \A j \in DOMAIN data.v :
                  j # i => ~InSeq(ElementErrors(i)[e], ElementErrors(j))

\* Every argument is evaluated against the data, and the tail applied, with
\* the input path and the vars of the call.
AsGiven ==
    /\ \A k \in DOMAIN ArgEvents :
         /\ ArgEvents[k].on = data
         /\ ArgEvents[k].path = input_path
         /\ ArgEvents[k].vars = vars
    /\ \A k \in DOMAIN TailEvents :
         /\ TailEvents[k].expr = tail
         /\ TailEvents[k].path = input_path
         /\ TailEvents[k].vars = vars

SliceStringCase == Finished /\ method_name = "slice" /\ data.k = "str"

\* s is a contiguous run of the characters of t.
IsRunOf(s, t) ==
    \E a \in 0..Len(t) : \E b \in a..Len(t) : s = SubSeq(t, a + 1, b)

\* C23: slice on a string never panics, whatever the characters of the
\* string and the bounds: with an argument list it hands the tail a string
\* that is a contiguous run of whole characters of the data, and without
\* one it returns the data.
C23_SliceStringWhole ==
    SliceStringCase =>
        /\ ~result.panic
        /\ IF method_args.some
           THEN /\ Len(TailEvents) = 1
                /\ TailEvents[1].on.k = "str"
                /\ IsRunOf(TailEvents[1].on.v, data.v)
           ELSE result.some /\ result.val = data

====
